---- MODULE Spec2Model ----
(***************************************************************************)
(* CartesianPositionController of reflexxes_position_controllers:          *)
(* the real-time context (starting, update) and the subscriber callback    *)
(* (setTrajectoryCommand), with the collaborators the controller calls     *)
(* (TRAC-IK, Reflexxes, the joint handles) as nondeterministic inputs.     *)
(*                                                                         *)
(* Units: positions are integers on a grid; a position tolerance is kept   *)
(* in half grid units, so that the default tolerance lies strictly between *)
(* two neighbouring grid positions.  Time is counted in ticks, a control   *)
(* period being `period' ticks.                                            *)
(***************************************************************************)
EXTENDS Integers, Sequences, FiniteSets

\* ---- bounds of the model ------------------------------------------------
MaxPos == 1
MaxVel == 1
MaxCycles == 3
MaxWrites == 1
\* the caps of the specification that lets a read overlap a second write
MaxCyclesMailbox == 2
MaxWritesMailbox == 2

\* ---- configuration and constants of the program ---------------------------
n_joints_ == 1
decimation_ == 10
RML_WORKING == 0
RML_FINAL_STATE_REACHED == 1
RML_ERROR == 0 - 1
IK_FAILED == 0 - 3
\* the period argument of update(), in ticks
period == 2

Joints == 1 .. n_joints_
Pos == 0 .. MaxPos
Vel == 0 .. MaxVel
PosVec == [Joints -> Pos]
VelVec == [Joints -> Vel]
ZeroVec == [i \in Joints |-> 0]

\* joint_nh.param("position_tolerance", ...): one tolerance per joint, in half grid units
position_tolerances_ == [i \in Joints |-> 1]

\* the results RMLPosition and RMLPositionAtAGivenSampleTime can return
RMLResults == {RML_WORKING, RML_FINAL_STATE_REACHED, RML_ERROR}

Abs(x) == IF x < 0 THEN 0 - x ELSE x

VARIABLES
    pc,                          \* position of the real-time context
    wpc,                         \* position of the subscriber callback
    nwrites,                     \* messages delivered so far
    new_reference_,
    recompute_trajectory_,
    trajectory_command_buffer_,  \* realtime_tools::RealtimeBuffer
    commanded_trajectory,        \* the pose update() read at line 283
    joints_,                     \* the joint handles: pos, vel read; cmd written
    previous_joint_velocity,
    current_joint_acceleration,
    target_joint_position,
    rml_in_,
    rml_out_,
    commanded_positions_,
    traj_start_time_,
    time,                        \* the time argument of the last update()
    loop_count_,
    cyc                          \* what the update() in progress or just completed did

vars == <<pc, wpc, nwrites, new_reference_, recompute_trajectory_,
          trajectory_command_buffer_, commanded_trajectory, joints_,
          previous_joint_velocity, current_joint_acceleration,
          target_joint_position, rml_in_, rml_out_, commanded_positions_,
          traj_start_time_, time, loop_count_, cyc>>

\* ---- collaborators -------------------------------------------------------------

\* KDL::ChainFkSolverPos_recursive::JntToCart on a chain whose joints add up:
\* the Cartesian coordinate of a joint vector
RECURSIVE SumTo(_, _)
SumTo(q, k) == IF k = 0 THEN 0 ELSE q[k] + SumTo(q, k - 1)
JntToCart(q) == SumTo(q, n_joints_)

\* the Cartesian coordinates a message can carry
Poses == 0 .. (n_joints_ * MaxPos)

\* a geometry_msgs::PoseStamped: seq numbers the messages in arrival order,
\* 0 being the pose starting() makes
PoseStamped(seq, pose) == [seq |-> seq, pose |-> pose]

\* RealtimeBuffer::initRT: both slots take the value
InitRT(buf, data) == [buf EXCEPT !.realtime_data_ = data, !.non_realtime_data_ = data]

\* the slots swapped without resetting new_data_available_
ReadFromRT_KeepFlag(buf, locked) ==
    IF ~locked /\ buf.new_data_available_
    THEN [buf EXCEPT !.realtime_data_ = buf.non_realtime_data_,
                     !.non_realtime_data_ = buf.realtime_data_]
    ELSE buf

\* RealtimeBuffer::readFromRT: when try_lock succeeds and new data is
\* available the slots are swapped; the realtime slot is what the caller reads
ReadFromRT(buf, locked) ==
    IF ~locked /\ buf.new_data_available_
    THEN [realtime_data_ |-> buf.non_realtime_data_,
          non_realtime_data_ |-> buf.realtime_data_,
          new_data_available_ |-> FALSE]
    ELSE buf

\* RealtimeBuffer::writeFromNonRT, under the buffer's mutex
WriteFromNonRT(buf, data) ==
    [buf EXCEPT !.non_realtime_data_ = data, !.new_data_available_ = TRUE]

\* TRAC_IK::CartToJnt(q_init, p_in, q_out): the return code and q_out after the
\* call.  A solution is a joint vector that reaches p_in; the solver can fail
\* on any input, and then q_out is left alone or set to the seed.
CartToJnt(q_init, p_in, q_out) ==
    {<<1, q>> : q \in {x \in PosVec : JntToCart(x) = p_in.pose}}
    \cup {<<IK_FAILED, q_out>>, <<IK_FAILED, q_init>>}

\* ---- the steps of update() ------------------------------------------------------

\* lines 286-294: a new reference asks for a new trajectory
RecomputeOnReference(flag, newRef) == IF newRef THEN TRUE ELSE flag

\* the acceleration as a rate: the difference divided by the period
ComputeAcceleration_PerPeriod(velocity, previous) ==
    [i \in Joints |-> (velocity[i] - previous[i]) \div period]

\* lines 297-300: the acceleration is the difference of two velocity readings
ComputeAcceleration(velocity, previous) ==
    [i \in Joints |-> velocity[i] - previous[i]]

\* the start state of a plan taken from the last sample instead of the readings
UpdateRMLInput_Stale(position, velocity, acceleration, target) ==
    [CurrentPositionVector |-> rml_out_.NewPositionVector,
     CurrentVelocityVector |-> velocity,
     CurrentAccelerationVector |-> acceleration,
     TargetPositionVector |-> target,
     TargetVelocityVector |-> ZeroVec]

\* lines 317-326: the input of RMLPosition
UpdateRMLInput(position, velocity, acceleration, target) ==
    [CurrentPositionVector |-> position,
     CurrentVelocityVector |-> velocity,
     CurrentAccelerationVector |-> acceleration,
     TargetPositionVector |-> target,
     TargetVelocityVector |-> ZeroVec]

\* the trajectory start time never stored
PlanStartTime_NotStored(replan, now, start) == start

\* line 334: a replanning cycle stores its time as the trajectory start time
PlanStartTime(replan, now, start) == IF replan THEN now ELSE start

\* the recompute flag left as it is by the replanning block
RecomputeAfterPlan_Keep(flag) == flag

\* line 350: the recompute flag after the replanning block
RecomputeAfterPlan(flag) == IF flag THEN FALSE ELSE flag

\* the result of RMLPosition kept when it is an error
SampleResult_KeepError(plan_result, rml_result) ==
    IF plan_result \notin {RML_WORKING, RML_FINAL_STATE_REACHED}
    THEN plan_result
    ELSE rml_result

\* lines 303, 345 and 354: rml_result holds 0 or the result of RMLPosition
\* until the result of RMLPositionAtAGivenSampleTime is assigned to it
SampleResult(plan_result, rml_result) == rml_result

\* line 361
TrackingError(sampled, position, i) == Abs(sampled[i] - position[i])

\* the tracking error taken without std::abs
ViolatingAxes_NoAbs(sampled, position) ==
    {i \in Joints : 2 * (sampled[i] - position[i]) > position_tolerances_[i]}

\* lines 360-368: the joints whose tracking error exceeds their tolerance
\* (tolerances are in half grid units)
ViolatingAxes(sampled, position) ==
    {i \in Joints : 2 * TrackingError(sampled, position, i) > position_tolerances_[i]}

\* the command without the default branch of the switch
ComputeCommand_NoFallback(rml_result, sampled, position) == sampled

\* lines 371-395: the command is the sampled position, the measured one on an error
ComputeCommand(rml_result, sampled, position) ==
    IF rml_result = RML_WORKING \/ rml_result = RML_FINAL_STATE_REACHED
    THEN sampled
    ELSE position

\* the flag without the RML_FINAL_STATE_REACHED case of the switch
RecomputeAtEnd_NoFinal(flag, violating, rml_result) ==
    IF violating # {} THEN TRUE ELSE flag

\* lines 363-364 and 381-383: the recompute flag at the end of the cycle
RecomputeAtEnd(flag, violating, rml_result) ==
    IF violating # {} THEN TRUE
    ELSE IF rml_result = RML_FINAL_STATE_REACHED THEN TRUE
    ELSE flag

\* the loop over the joints stopping one short
SetCommands_OneShort(commands) ==
    [i \in 1 .. (n_joints_ - 1) |-> [joint |-> i, value |-> commands[i]]]

\* lines 399-401: one setCommand per joint, in joint order
SetCommands(commands) ==
    [i \in 1 .. n_joints_ |-> [joint |-> i, value |-> commands[i]]]

\* the command each joint handle holds after a sequence of setCommand calls
RECURSIVE ApplyCommands(_, _)
ApplyCommands(cmd, writes) ==
    IF writes = <<>> THEN cmd
    ELSE ApplyCommands([cmd EXCEPT ![Head(writes).joint] = Head(writes).value],
                       Tail(writes))

\* the diagnostics of a cycle: lines 293, 365, 382, 387-389
Diagnostics(newRef, violating, rml_result, count) ==
    (IF newRef THEN {"new_reference"} ELSE {})
    \cup (IF violating # {} THEN {"tolerance"} ELSE {})
    \cup (IF rml_result = RML_FINAL_STATE_REACHED THEN {"final_state"} ELSE {})
    \cup (IF rml_result \notin {RML_WORKING, RML_FINAL_STATE_REACHED}
             /\ count % decimation_ = 0
          THEN {"error"} ELSE {})

\* the record of a cycle that has not run yet; prev* summarise the cycle before,
\* locked (try_lock failed) and freshPose (the pose read is that of a later
\* message than the pose read before, differs from it, and the callback that
\* stored it has returned) describe the read at line 283 until the cycle ends
NoCycle ==
    [done |-> FALSE, prevDone |-> FALSE, prevStatus |-> RML_WORKING,
     prevViolation |-> FALSE, newRef |-> FALSE, replan |-> FALSE, ik |-> "none",
     beginPlan |-> FALSE, planResult |-> RML_WORKING, status |-> RML_WORKING,
     violating |-> {}, elapsed |-> 0, writes |-> <<>>, log |-> {},
     locked |-> FALSE, freshPose |-> FALSE]

\* ---- initial state: after the constructor and init() ---------------------------
Init ==
    /\ pc = "init"
    /\ wpc = "idle"
    /\ nwrites = 0
    /\ new_reference_ = FALSE
    /\ recompute_trajectory_ = FALSE
    /\ trajectory_command_buffer_ =
          [realtime_data_ |-> PoseStamped(0, 0),
           non_realtime_data_ |-> PoseStamped(0, 0),
           new_data_available_ |-> FALSE]
    /\ commanded_trajectory = PoseStamped(0, 0)
    /\ joints_ = [pos |-> ZeroVec, vel |-> ZeroVec, cmd |-> ZeroVec]
    /\ previous_joint_velocity = ZeroVec
    /\ current_joint_acceleration = ZeroVec
    /\ target_joint_position = ZeroVec
    /\ rml_out_ = [NewPositionVector |-> ZeroVec]
    /\ rml_in_ = UpdateRMLInput(ZeroVec, ZeroVec, ZeroVec, ZeroVec)
    /\ commanded_positions_ = ZeroVec
    /\ traj_start_time_ = 0
    /\ time = 0
    /\ loop_count_ = 0
    /\ cyc = NoCycle

\* ---- starting() ---------------------------------------------------------------------
\* starting() without line 278
Starting_NoFlag ==
    /\ pc = "init"
    /\ \E position \in PosVec :
          /\ joints_' = [joints_ EXCEPT !.pos = position]
          /\ trajectory_command_buffer_' =
                InitRT(trajectory_command_buffer_, PoseStamped(0, JntToCart(position)))
          /\ commanded_positions_' = position
    /\ pc' = "idle"
    /\ UNCHANGED <<wpc, nwrites, new_reference_, recompute_trajectory_,
                   commanded_trajectory, previous_joint_velocity,
                   current_joint_acceleration, target_joint_position, rml_in_,
                   rml_out_, traj_start_time_, time, loop_count_, cyc>>

Starting ==
    /\ pc = "init"
    /\ \E position \in PosVec :
          /\ joints_' = [joints_ EXCEPT !.pos = position]
          /\ trajectory_command_buffer_' =
                InitRT(trajectory_command_buffer_, PoseStamped(0, JntToCart(position)))
          /\ commanded_positions_' = position
    /\ new_reference_' = TRUE
    /\ pc' = "idle"
    /\ UNCHANGED <<wpc, nwrites, recompute_trajectory_, commanded_trajectory,
                   previous_joint_velocity, current_joint_acceleration,
                   target_joint_position, rml_in_, rml_out_, traj_start_time_,
                   time, loop_count_, cyc>>

\* ---- update() -----------------------------------------------------------------------
\* line 283: read the mailbox, in at most maxCycles cycles
UpdateReadWithin(maxCycles) ==
    /\ pc = "idle"
    /\ loop_count_ < maxCycles
    /\ trajectory_command_buffer_' = ReadFromRT(trajectory_command_buffer_, wpc = "locked")
    /\ commanded_trajectory' = trajectory_command_buffer_'.realtime_data_
    /\ cyc' = [NoCycle EXCEPT !.prevDone = cyc.done,
                              !.prevStatus = cyc.status,
                              !.prevViolation = (cyc.violating # {}),
                              !.locked = (wpc = "locked"),
                              !.freshPose =
                                 /\ commanded_trajectory'.seq > commanded_trajectory.seq
                                 /\ commanded_trajectory'.pose # commanded_trajectory.pose
                                 /\ ~(wpc = "l451" /\ nwrites = commanded_trajectory'.seq)]
    /\ pc' = "l286"
    /\ UNCHANGED <<wpc, nwrites, new_reference_, recompute_trajectory_, joints_,
                   previous_joint_velocity, current_joint_acceleration,
                   target_joint_position, rml_in_, rml_out_, commanded_positions_,
                   traj_start_time_, time, loop_count_>>

UpdateRead == UpdateReadWithin(MaxCycles)

UpdateReadMailbox == UpdateReadWithin(MaxCyclesMailbox)

\* lines 286-436 with the readings, the collaborators' results and the time
\* argument of this cycle
UpdateBody(position, velocity, ik, plan_result, rml_result, sampled, now) ==
    LET acceleration == ComputeAcceleration(velocity, previous_joint_velocity)
        replan == RecomputeOnReference(recompute_trajectory_, new_reference_)
        target == IF replan THEN ik[2] ELSE target_joint_position
        start == PlanStartTime(replan, now, traj_start_time_)
        result == SampleResult(plan_result, rml_result)
        violating == ViolatingAxes(sampled, position)
        commands == ComputeCommand(result, sampled, position)
        writes == SetCommands(commands)
    IN  /\ new_reference_' = FALSE
        /\ current_joint_acceleration' = acceleration
        /\ previous_joint_velocity' = velocity
        /\ target_joint_position' = target
        /\ rml_in_' = IF replan
                      THEN UpdateRMLInput(position, velocity, acceleration, target)
                      ELSE rml_in_
        /\ traj_start_time_' = start
        /\ rml_out_' = [NewPositionVector |-> sampled]
        /\ recompute_trajectory_' =
              RecomputeAtEnd(RecomputeAfterPlan(replan), violating, result)
        /\ commanded_positions_' = commands
        /\ joints_' = [pos |-> position, vel |-> velocity,
                       cmd |-> ApplyCommands(joints_.cmd, writes)]
        /\ time' = now
        /\ loop_count_' = loop_count_ + 1
        /\ cyc' = [cyc EXCEPT
                     !.done = TRUE,
                     !.newRef = new_reference_,
                     !.replan = replan,
                     !.ik = IF ~replan THEN "none"
                            ELSE IF ik[1] >= 0 THEN "ok" ELSE "fail",
                     !.beginPlan = replan,
                     !.planResult = IF replan THEN plan_result ELSE RML_WORKING,
                     !.status = rml_result,
                     !.violating = violating,
                     !.elapsed = now - start,
                     !.writes = writes,
                     !.log = Diagnostics(new_reference_, violating, result, loop_count_),
                     !.locked = FALSE,
                     !.freshPose = FALSE]

UpdateCycle ==
    /\ pc = "l286"
    /\ pc' = "idle"
    /\ \E position \in PosVec, velocity \in VelVec, sampled \in PosVec,
          rml_result \in RMLResults :
          IF RecomputeOnReference(recompute_trajectory_, new_reference_)
          THEN \E ik \in CartToJnt(position, commanded_trajectory, target_joint_position),
                  plan_result \in RMLResults :
                  UpdateBody(position, velocity, ik, plan_result, rml_result,
                             sampled, time + period)
          ELSE UpdateBody(position, velocity, <<1, target_joint_position>>,
                          RML_WORKING, rml_result, sampled, time + period)
    /\ UNCHANGED <<wpc, nwrites, trajectory_command_buffer_, commanded_trajectory>>

\* ---- setTrajectoryCommand() ---------------------------------------------------------
\* line 450: writeFromNonRT takes the buffer's mutex, for at most maxWrites messages
WriteLockWithin(maxWrites) ==
    /\ wpc = "idle"
    /\ nwrites < maxWrites
    /\ wpc' = "locked"
    /\ UNCHANGED <<pc, nwrites, new_reference_, recompute_trajectory_,
                   trajectory_command_buffer_, commanded_trajectory, joints_,
                   previous_joint_velocity, current_joint_acceleration,
                   target_joint_position, rml_in_, rml_out_, commanded_positions_,
                   traj_start_time_, time, loop_count_, cyc>>

WriteLock == WriteLockWithin(MaxWrites)

WriteLockMailbox == WriteLockWithin(MaxWritesMailbox)

\* line 450: the message is stored and the mutex released
WriteBuffer ==
    /\ wpc = "locked"
    /\ \E pose \in Poses :
          trajectory_command_buffer_' =
             WriteFromNonRT(trajectory_command_buffer_, PoseStamped(nwrites + 1, pose))
    /\ nwrites' = nwrites + 1
    /\ wpc' = "l451"
    /\ UNCHANGED <<pc, new_reference_, recompute_trajectory_, commanded_trajectory,
                   joints_, previous_joint_velocity, current_joint_acceleration,
                   target_joint_position, rml_in_, rml_out_, commanded_positions_,
                   traj_start_time_, time, loop_count_, cyc>>

\* line 451
WriteFlag ==
    /\ wpc = "l451"
    /\ new_reference_' = TRUE
    /\ wpc' = "idle"
    /\ UNCHANGED <<pc, nwrites, recompute_trajectory_, trajectory_command_buffer_,
                   commanded_trajectory, joints_, previous_joint_velocity,
                   current_joint_acceleration, target_joint_position, rml_in_,
                   rml_out_, commanded_positions_, traj_start_time_, time,
                   loop_count_, cyc>>

Next ==
    \/ Starting
    \/ UpdateRead
    \/ UpdateCycle
    \/ WriteLock
    \/ WriteBuffer
    \/ WriteFlag

Spec == Init /\ [][Next]_vars

\* the same program, with fewer cycles and a second message
NextMailbox ==
    \/ Starting
    \/ UpdateReadMailbox
    \/ UpdateCycle
    \/ WriteLockMailbox
    \/ WriteBuffer
    \/ WriteFlag

SpecMailbox == Init /\ [][NextMailbox]_vars

\* ---- the claims -------------------------------------------------------------------

\* an update() has just returned
CycleDone == pc = "idle" /\ cyc.done

\* the step that runs lines 286-436 of a cycle
CycleStep == pc = "l286" /\ pc' = "idle"

\* the plan status is neither Working nor FinalStateReached
StatusIsError == cyc.status \notin {RML_WORKING, RML_FINAL_STATE_REACHED}

\* some joint's sampled position is further from its reading than its tolerance
ToleranceExceeded ==
    \E i \in Joints :
        2 * Abs(rml_out_.NewPositionVector[i] - joints_.pos[i]) > position_tolerances_[i]

\* C1: in a cycle where the replan request is set and the inverse kinematics
\* fails, RMLPosition is not invoked and the planner's target position vector
\* keeps the value it had before the cycle.
C1_IKFailureSkipsPlan ==
    [][(CycleStep /\ cyc'.replan /\ cyc'.ik = "fail")
         => (~cyc'.beginPlan
             /\ rml_in_'.TargetPositionVector = rml_in_.TargetPositionVector)]_vars

\* C2: at the end of every cycle in which the inverse kinematics failed the
\* replan request is still set.
C2_IKFailureKeepsRequest ==
    (CycleDone /\ cyc.ik = "fail") => recompute_trajectory_

\* C3: in a cycle in which the inverse kinematics fails, the command written to
\* every joint equals the command written in the cycle before.
C3_IKFailureHoldsCommand ==
    [][(CycleStep /\ cyc'.prevDone /\ cyc'.ik = "fail")
         => (\A i \in Joints : joints_'.cmd[i] = joints_.cmd[i])]_vars

\* C4: in every cycle whose plan status is an error, the command written to each
\* joint is that joint's measured position of the cycle.
C4_ErrorCommandsMeasured ==
    (CycleDone /\ StatusIsError)
        => /\ \A i \in Joints : joints_.cmd[i] = joints_.pos[i]
           /\ \A k \in 1 .. Len(cyc.writes) :
                 cyc.writes[k].value = joints_.pos[cyc.writes[k].joint]

C4_Witness ==
    /\ CycleDone
    /\ StatusIsError
    /\ \E i \in Joints : rml_out_.NewPositionVector[i] # joints_.pos[i]
    /\ \A i \in Joints : joints_.cmd[i] = joints_.pos[i]

\* C5: every cycle, whatever path it took, ends having written exactly one
\* command to every joint, and a cycle that has begun can always run to its end.
C5_OneCommandPerJoint ==
    /\ CycleDone =>
          \A j \in Joints :
              Cardinality({k \in 1 .. Len(cyc.writes) : cyc.writes[k].joint = j}) = 1
    /\ pc = "l286" => ENABLED UpdateCycle

C5_Witness ==
    /\ CycleDone
    /\ cyc.ik = "fail"
    /\ StatusIsError
    /\ cyc.violating # {}
    /\ Len(cyc.writes) = n_joints_
    /\ loop_count_ > 1

\* C6: a cycle that found the replan request set and leaves it cleared is a
\* cycle in which the inverse kinematics succeeded and RMLPosition returned no
\* error.
C6_ClearedOnlyOnSuccess ==
    (CycleDone /\ cyc.replan /\ ~recompute_trajectory_)
        => (cyc.ik = "ok"
            /\ cyc.planResult \in {RML_WORKING, RML_FINAL_STATE_REACHED})

\* C7: after a cycle whose plan status is an error the replan request is set,
\* and the next cycle invokes RMLPosition.
C7_ErrorIsRetried ==
    /\ (CycleDone /\ StatusIsError) => recompute_trajectory_
    /\ (CycleDone /\ cyc.prevDone
          /\ cyc.prevStatus \notin {RML_WORKING, RML_FINAL_STATE_REACHED})
       => cyc.beginPlan

\* C8: whatever the plan status, a joint out of tolerance leaves the replan
\* request set at the end of the cycle, and with status Working the command of
\* that cycle is still the sampled position; with every joint within tolerance
\* the request is set at the end of the cycle only by FinalStateReached.
C8_ToleranceSetsRequest ==
    CycleDone =>
        /\ ToleranceExceeded => recompute_trajectory_
        /\ (ToleranceExceeded /\ cyc.status = RML_WORKING)
              => \A i \in Joints : joints_.cmd[i] = rml_out_.NewPositionVector[i]
        /\ (~ToleranceExceeded /\ cyc.status # RML_FINAL_STATE_REACHED)
              => ~recompute_trajectory_

C8_Witness ==
    /\ CycleDone
    /\ ToleranceExceeded
    /\ cyc.status = RML_WORKING
    /\ recompute_trajectory_
    /\ \E i \in Joints : rml_out_.NewPositionVector[i] < joints_.pos[i]
    /\ \A i \in Joints : joints_.cmd[i] = rml_out_.NewPositionVector[i]

\* C9: the cycle after a tolerance violation invokes RMLPosition, and the start
\* state it passes is the position and velocity read in that cycle with that
\* cycle's derived acceleration.
C9_ViolationReplansFromMeasured ==
    (CycleDone /\ cyc.prevDone /\ cyc.prevViolation)
        => /\ cyc.beginPlan
           /\ rml_in_.CurrentPositionVector = joints_.pos
           /\ rml_in_.CurrentVelocityVector = joints_.vel
           /\ rml_in_.CurrentAccelerationVector = current_joint_acceleration
           /\ traj_start_time_ = time

C9_Witness ==
    /\ CycleDone
    /\ cyc.prevDone
    /\ cyc.prevViolation
    /\ cyc.prevStatus = RML_WORKING
    /\ ~cyc.newRef
    /\ cyc.beginPlan
    /\ rml_in_.CurrentPositionVector = joints_.pos
    /\ \E i \in Joints : joints_.vel[i] # 0 /\ current_joint_acceleration[i] # 0

ReadStep == pc = "idle" /\ pc' = "l286"

\* the message stored last is in the mailbox: starting() has not replaced it
LatestInMailbox ==
    /\ nwrites > 0
    /\ \/ trajectory_command_buffer_.non_realtime_data_.seq = nwrites
       \/ trajectory_command_buffer_.realtime_data_.seq = nwrites

\* the poses update() reads never go back in the order of the writes, and
\* before any write the pose read is the one starting() made
ReadsMonotone ==
    /\ commanded_trajectory'.seq >= commanded_trajectory.seq
    /\ nwrites = 0 => commanded_trajectory'.seq = 0

C12_WriteCausesReplan ==
    [][(CycleStep /\ cyc.freshPose) => (cyc'.replan /\ cyc'.beginPlan)]_vars

\* a step of starting() or update()
RealTimeStep == pc' # pc

\* a step of the subscriber callback
CallbackStep == wpc' # wpc

\* C13: no variable is written by both contexts: a step of starting() or
\* update() writes neither the mailbox nor any variable the callback writes,
\* and a step of the callback writes no variable of update().
C13_NoVariableWrittenByBoth ==
    [][/\ RealTimeStep
            => /\ trajectory_command_buffer_' = trajectory_command_buffer_
               /\ new_reference_' = new_reference_
       /\ CallbackStep
            => UNCHANGED <<pc, recompute_trajectory_, commanded_trajectory, joints_,
                           previous_joint_velocity, current_joint_acceleration,
                           target_joint_position, rml_in_, rml_out_,
                           commanded_positions_, traj_start_time_, time,
                           loop_count_>>]_vars

\* the diagnostics of the cycle before the one that has just returned
PrevLog ==
    Diagnostics(FALSE, IF cyc.prevViolation THEN Joints ELSE {}, cyc.prevStatus,
                loop_count_ - 2)

\* C14: a diagnostic of one kind (tolerance violation, planner error, final
\* state) is emitted at most once in decimation_ consecutive cycles, so never
\* in two cycles that follow each other.
C14_DiagnosticsRateLimited ==
    (CycleDone /\ cyc.prevDone)
       => \A kind \in {"tolerance", "final_state", "error"} :
             ~(kind \in PrevLog /\ kind \in cyc.log)

C16_PlanOnlyOnTrigger ==
    [][CycleStep
         => /\ cyc'.beginPlan
                 => \/ cyc'.newRef
                    \/ /\ cyc'.prevDone
                       /\ \/ cyc'.prevViolation
                          \/ cyc'.prevStatus = RML_FINAL_STATE_REACHED
            /\ (cyc'.prevDone /\ cyc'.prevStatus = RML_WORKING
                  /\ ~cyc'.prevViolation /\ ~cyc'.newRef)
                 => ~cyc'.beginPlan
            /\ ~cyc'.beginPlan
                 => /\ rml_in_' = rml_in_
                    /\ target_joint_position' = target_joint_position
                    /\ traj_start_time_' = traj_start_time_]_vars

\* a cycle after a Working cycle within tolerance, no new reference: the plan
\* of an earlier cycle is kept
C16_Witness ==
    /\ CycleDone
    /\ cyc.prevDone
    /\ cyc.prevStatus = RML_WORKING
    /\ ~cyc.prevViolation
    /\ ~cyc.newRef
    /\ ~cyc.beginPlan
    /\ traj_start_time_ < time
    /\ nwrites = 1

\* C17: the acceleration of a joint is its velocity reading of this cycle minus
\* its velocity reading of the cycle before, not divided by the period; the
\* stored previous velocity becomes this cycle's reading in every cycle; the
\* acceleration given to RMLPosition is this value.
C17_AccelerationIsDifference ==
    [][CycleStep
         => /\ \A i \in Joints :
                  /\ current_joint_acceleration'[i]
                        = joints_'.vel[i] - previous_joint_velocity[i]
                  /\ previous_joint_velocity'[i] = joints_'.vel[i]
            /\ cyc'.beginPlan
                  => rml_in_'.CurrentAccelerationVector = current_joint_acceleration']_vars

\* a cycle without a plan in which a joint's velocity fell by one unit
C17_Witness ==
    /\ CycleDone
    /\ cyc.prevDone
    /\ ~cyc.beginPlan
    /\ \E i \in Joints :
          /\ joints_.vel[i] = 0
          /\ previous_joint_velocity[i] = 0
          /\ current_joint_acceleration[i] = 0 - 1

\* C18: the first cycle after starting() invokes RMLPosition and samples the
\* new plan at zero; when it read no message its pose is the pose of the joint
\* positions measured by starting(); no cycle samples without a plan made in
\* that cycle or in an earlier one.
C18_FirstCyclePlans ==
    [][CycleStep
         => /\ ~cyc.prevDone
                 => /\ cyc'.beginPlan
                    /\ cyc'.elapsed = 0
                    /\ commanded_trajectory.seq = 0
                          => commanded_trajectory.pose = JntToCart(joints_.pos)
            /\ cyc'.beginPlan \/ traj_start_time_ >= period]_vars

\* the first cycle, no message written, planned for the pose of a start
\* position that is not the zero position
C18_Witness ==
    /\ CycleDone
    /\ ~cyc.prevDone
    /\ nwrites = 0
    /\ cyc.beginPlan
    /\ cyc.ik = "ok"
    /\ commanded_trajectory = PoseStamped(0, 1)
    /\ JntToCart(rml_in_.TargetPositionVector) = 1

\* the command, the recompute flag and the error diagnostic of a cycle follow
\* from the status of RMLPositionAtAGivenSampleTime and the tolerance check
StatusOfSampleDecides ==
    CycleDone
       => /\ \A i \in Joints :
                joints_.cmd[i] = IF StatusIsError
                                 THEN joints_.pos[i]
                                 ELSE rml_out_.NewPositionVector[i]
          /\ recompute_trajectory_
                = (ToleranceExceeded \/ cyc.status = RML_FINAL_STATE_REACHED)
          /\ ("error" \in cyc.log)
                = (StatusIsError /\ (loop_count_ - 1) % decimation_ = 0)

\* RMLPosition returned an error and RMLPositionAtAGivenSampleTime Working
PlanErrorSampleWorking ==
    /\ CycleDone
    /\ cyc.beginPlan
    /\ cyc.planResult \notin {RML_WORKING, RML_FINAL_STATE_REACHED}
    /\ cyc.status = RML_WORKING

\* C19 as stated: the command, the replan request and the error diagnostic of
\* a cycle follow from the status of RMLPositionAtAGivenSampleTime alone, the
\* status of RMLPosition having no influence; a cycle in which RMLPosition
\* returns an error and the sample reports Working commands the sampled
\* position and ends with the replan request cleared.
C19_PlanErrorLeavesFlagCleared ==
    /\ StatusOfSampleDecides
    /\ PlanErrorSampleWorking
          => /\ \A i \in Joints : joints_.cmd[i] = rml_out_.NewPositionVector[i]
             /\ ~recompute_trajectory_

\* C19 amended: as C19, but the cycle in which RMLPosition returns an error and
\* the sample reports Working ends with the replan request cleared only when
\* every joint is within tolerance; a tolerance violation sets it.
C19_SampleStatusDecides ==
    /\ StatusOfSampleDecides
    /\ PlanErrorSampleWorking
          => /\ \A i \in Joints : joints_.cmd[i] = rml_out_.NewPositionVector[i]
             /\ recompute_trajectory_ = ToleranceExceeded

\* RMLPosition returned an error, the sample reports Working: the command is
\* the sampled position, which is not the measured one
C19_Witness ==
    /\ PlanErrorSampleWorking
    /\ cyc.planResult = RML_ERROR
    /\ ToleranceExceeded
    /\ recompute_trajectory_
    /\ \A i \in Joints :
          /\ joints_.cmd[i] = rml_out_.NewPositionVector[i]
          /\ joints_.cmd[i] # joints_.pos[i]
    /\ "error" \notin cyc.log

\* the number of messages whose callback has set new_reference_
CompletedWrites == IF wpc = "l451" THEN nwrites - 1 ELSE nwrites

\* C20: in a cycle after the first that observes and clears new_reference_,
\* the pose read for the plan is the pose of the last message whose callback
\* set the flag, or of a later message: the flag raised for a pose is never
\* consumed by a plan toward a pose written before it.
C20_FlagConsumedWithItsPose ==
    [][(CycleStep /\ cyc.prevDone /\ new_reference_)
         => commanded_trajectory.seq >= CompletedWrites]_vars

====
